---- MODULE Spec2Model ----
(***************************************************************************)
(* A model of swaggler: CurlParser (parse, sanitize) and OpenAPIGenerator  *)
(* (generateSchema, generateOperationId, generate, mergeWithExisting).     *)
(*                                                                         *)
(* Strings are TLA+ strings, read character by character with SubSeq.      *)
(* A JavaScript object is an ordered map: a sequence of [k, v] pairs with  *)
(* pairwise distinct keys, in insertion order (the order for-in,           *)
(* Object.entries and the spread operator follow for non-numeric keys).    *)
(***************************************************************************)
EXTENDS Integers, Sequences, FiniteSets, TLC

VARIABLES
    openapi,        \* mergeWithExisting: the new document object (mutated in place)
    existingFile,   \* mergeWithExisting: what readFileSync + yaml.load find at appendPath
    mergeResult,    \* mergeWithExisting: how the call ended
    command,        \* the curl command as typed: its arguments after the word curl
    parsed,         \* CurlParser.parse's result for the command
    generated,      \* OpenAPIGenerator.generate's document
    schemaWrites,   \* the schema-name assignments generate made, in order
    pc,             \* the pipeline's position: "start", "parsed", "generated"
    passes,         \* a command text, followed by the results of sanitizing it again and again
    operationCalls, \* the generateOperationId calls made: [method, path, operationId]
    files,          \* the file system: what each file name holds
    run             \* the current run of the generate command

mergeVars == <<openapi, existingFile, mergeResult>>
curlVars == <<command, parsed, generated, schemaWrites, pc>>
sanitizeVars == <<passes>>
idVars == <<operationCalls>>
cliVars == <<files, run>>
vars == <<openapi, existingFile, mergeResult, command, parsed, generated, schemaWrites, pc, passes, operationCalls, files, run>>

(***************************************************************************)
(* Ordered maps                                                            *)
(***************************************************************************)
EmptyMap == <<>>

Keys(m) == {m[i].k : i \in 1..Len(m)}

KeySeq(m) == [i \in 1..Len(m) |-> m[i].k]

Has(m, key) == \E i \in 1..Len(m) : m[i].k = key

Get(m, key) == m[CHOOSE i \in 1..Len(m) : m[i].k = key].v

\* obj[key] = val: an existing key keeps its position and takes the new value
Put(m, key, val) ==
    IF Has(m, key)
    THEN [i \in 1..Len(m) |-> IF m[i].k = key THEN [k |-> key, v |-> val] ELSE m[i]]
    ELSE Append(m, [k |-> key, v |-> val])

\* { ...a, ...b }
RECURSIVE Spread(_, _)
Spread(a, b) ==
    IF b = <<>> THEN a
    ELSE Spread(Put(a, Head(b).k, Head(b).v), Tail(b))

\* every ordered map with keys in K, values in V and at most n entries
RECURSIVE OrderedMaps(_, _, _)
OrderedMaps(K, V, n) ==
    IF n = 0 THEN {EmptyMap}
    ELSE LET shorter == OrderedMaps(K, V, n - 1)
         IN  shorter \cup
             UNION {{Append(m, [k |-> key, v |-> val]) : key \in K \ Keys(m), val \in V}
                    : m \in {p \in shorter : Len(p) = n - 1}}

Min(S) == CHOOSE x \in S : \A y \in S : x <= y

(***************************************************************************)
(* Strings                                                                 *)
(***************************************************************************)
CharAt(s, i) == IF 1 <= i /\ i <= Len(s) THEN SubSeq(s, i, i) ELSE ""

\* s.slice(i) with i counted from 1
From(s, i) == IF i > Len(s) THEN "" ELSE SubSeq(s, i, Len(s))

\* s has lit at position i
HasAt(s, i, lit) == i + Len(lit) - 1 <= Len(s) /\ SubSeq(s, i, i + Len(lit) - 1) = lit

LowerLetters == "abcdefghijklmnopqrstuvwxyz"
UpperLetters == "ABCDEFGHIJKLMNOPQRSTUVWXYZ"
Digits == "0123456789"

\* position of the one-character string c in alphabet, 0 when absent
PosIn(c, alphabet) ==
    IF \E i \in 1..Len(alphabet) : SubSeq(alphabet, i, i) = c
    THEN CHOOSE i \in 1..Len(alphabet) : SubSeq(alphabet, i, i) = c
    ELSE 0

Chars(alphabet) == {SubSeq(alphabet, i, i) : i \in 1..Len(alphabet)}

LowerSet == Chars(LowerLetters)
UpperSet == Chars(UpperLetters)
DigitSet == Chars(Digits)

UpperOf == [c \in LowerSet |-> SubSeq(UpperLetters, PosIn(c, LowerLetters), PosIn(c, LowerLetters))]
LowerOf == [c \in UpperSet |-> SubSeq(LowerLetters, PosIn(c, UpperLetters), PosIn(c, UpperLetters))]

IsLetter(c) == c \in LowerSet \/ c \in UpperSet
IsDigit(c) == c \in DigitSet

\* \s of a regular expression, over the characters of the model
IsSpace(c) == c \in {" ", "\n", "\t", "\r"}

ToUpperChar(c) == IF c \in LowerSet THEN UpperOf[c] ELSE c

ToLowerChar(c) == IF c \in UpperSet THEN LowerOf[c] ELSE c

RECURSIVE ToLowerCase(_)
ToLowerCase(s) ==
    IF s = "" THEN "" ELSE ToLowerChar(Head(s)) \o ToLowerCase(Tail(s))

RECURSIVE ToUpperCase(_)
ToUpperCase(s) ==
    IF s = "" THEN "" ELSE ToUpperChar(Head(s)) \o ToUpperCase(Tail(s))

\* key.charAt(0).toUpperCase() + key.slice(1)
CapitalizeKey(key) == ToUpperChar(CharAt(key, 1)) \o From(key, 2)

\* utils.capitalizeFirstLetter: the text with its first letter in upper case
capitalizeFirstLetter(str) == ToUpperChar(CharAt(str, 1)) \o From(str, 2)

\* the first position >= i where lit occurs in s, 0 when there is none
RECURSIVE IndexOf(_, _, _)
IndexOf(s, lit, i) ==
    IF i + Len(lit) - 1 > Len(s) THEN 0
    ELSE IF HasAt(s, i, lit) THEN i
    ELSE IndexOf(s, lit, i + 1)

\* s.split(sep) for a non-empty separator: the pieces, at least one
RECURSIVE Split(_, _)
Split(s, sep) ==
    LET at == IndexOf(s, sep, 1)
    IN  IF at = 0 THEN <<s>>
        ELSE <<SubSeq(s, 1, at - 1)>> \o Split(From(s, at + Len(sep)), sep)

\* parts.join(sep)
RECURSIVE Join(_, _)
Join(parts, sep) ==
    IF parts = <<>> THEN ""
    ELSE IF Len(parts) = 1 THEN parts[1]
    ELSE parts[1] \o sep \o Join(Tail(parts), sep)

(***************************************************************************)
(* JSON values.  [t |-> "undefined"], [t |-> "null"], [t |-> "bool", b],    *)
(* [t |-> "num", s] (s the number's text), [t |-> "str", s],               *)
(* [t |-> "arr", a] (a sequence), [t |-> "obj", o] (an ordered map).        *)
(***************************************************************************)
Undefined == [t |-> "undefined"]
Null == [t |-> "null"]
Bool(b) == [t |-> "bool", b |-> b]
Num(s) == [t |-> "num", s |-> s]
Str(s) == [t |-> "str", s |-> s]
Arr(a) == [t |-> "arr", a |-> a]
Obj(o) == [t |-> "obj", o |-> o]
KV(key, val) == [k |-> key, v |-> val]

\* Number.isInteger of the number written as s (digits, optional sign and fraction)
NumberIsInteger(s) ==
    LET dot == IndexOf(s, ".", 1)
    IN  dot = 0 \/ \A i \in dot + 1..Len(s) : CharAt(s, i) = "0"

\* the number written as s is 0 (falsy)
NumberIsZero(s) ==
    \A i \in 1..Len(s) : CharAt(s, i) \in {"0", ".", "-"}

\* if (value): JavaScript truthiness
Truthy(value) ==
    CASE value.t = "undefined" -> FALSE
      [] value.t = "null" -> FALSE
      [] value.t = "bool" -> value.b
      [] value.t = "num" -> ~NumberIsZero(value.s)
      [] value.t = "str" -> value.s # ""
      [] OTHER -> TRUE

(***************************************************************************)
(* OpenAPIGenerator: schema inference                                      *)
(*                                                                         *)
(* A schema is a record with the fields the source writes: type,           *)
(* properties (an ordered map), items, example, nullable, required, and    *)
(* ref for $ref.  The registry `schemas` is threaded through the recursion *)
(* as reg.schemas; reg.writes lists, in order, every assignment            *)
(* schemas[name] = schema that the call made.                              *)
(***************************************************************************)
MaxDepth == 100

getOpenAPIType(value) ==
    CASE value.t = "arr" -> "array"
      [] value.t = "null" -> "object"
      [] value.t = "obj" -> "object"
      [] value.t = "num" -> IF NumberIsInteger(value.s) THEN "integer" ELSE "number"
      [] value.t = "bool" -> "boolean"
      [] OTHER -> "string"

EmptyRegistry == [schemas |-> EmptyMap, writes |-> <<>>]

\* schemas[name] = schema
Register(reg, name, schema) ==
    [schemas |-> Put(reg.schemas, name, schema),
     writes |-> Append(reg.writes, [name |-> name, schema |-> schema])]

RefTo(name) == [ref |-> "#/components/schemas/" \o name]

RECURSIVE generateSchema(_, _, _, _)
RECURSIVE generateProperties(_, _, _, _, _)

\* returns [schema, reg]
generateSchema(data, prefix, depth, reg) ==
    IF depth > MaxDepth
    THEN [schema |-> [type |-> "object", properties |-> EmptyMap], reg |-> reg]
    ELSE IF data.t = "arr"
    THEN LET itemSchemaName == prefix \o "Item"
         IN  IF Len(data.a) > 0
             THEN LET item == generateSchema(data.a[1], itemSchemaName, depth + 1, reg)
                  IN  [schema |-> [type |-> "array", items |-> RefTo(itemSchemaName)],
                       reg |-> Register(item.reg, itemSchemaName, item.schema)]
             ELSE [schema |-> [type |-> "array",
                               items |-> [type |-> "object", properties |-> EmptyMap,
                                          required |-> <<>>]],
                   reg |-> reg]
    ELSE IF data.t = "obj"
    THEN LET done == generateProperties(data.o, prefix, depth, EmptyMap, reg)
         IN  [schema |-> [type |-> "object", properties |-> done.properties],
              reg |-> done.reg]
    ELSE [schema |-> [type |-> getOpenAPIType(data), example |-> data,
                      properties |-> EmptyMap],
          reg |-> reg]

\* Object.entries(data).forEach(...): returns [properties, reg]
generateProperties(entries, prefix, depth, properties, reg) ==
    IF entries = <<>> THEN [properties |-> properties, reg |-> reg]
    ELSE
    LET key == Head(entries).k
        value == Head(entries).v
        one ==
            IF value.t = "null"
            THEN [schema |-> [type |-> "string", nullable |-> TRUE], reg |-> reg]
            ELSE IF value.t = "arr"
            THEN LET itemSchemaName == prefix \o CapitalizeKey(key) \o "Item"
                 IN  IF Len(value.a) > 0
                     THEN LET item == generateSchema(value.a[1], itemSchemaName,
                                                     depth + 1, reg)
                          IN  [schema |-> [type |-> "array",
                                           items |-> RefTo(itemSchemaName)],
                               reg |-> Register(item.reg, itemSchemaName, item.schema)]
                     ELSE [schema |-> [type |-> "array",
                                       items |-> [type |-> "object",
                                                  properties |-> EmptyMap]],
                           reg |-> reg]
            ELSE IF value.t = "obj"
            THEN LET nestedSchemaName == prefix \o CapitalizeKey(key)
                     nested == generateSchema(value, nestedSchemaName, depth + 1, reg)
                 IN  [schema |-> RefTo(nestedSchemaName),
                      reg |-> Register(nested.reg, nestedSchemaName, nested.schema)]
            ELSE [schema |-> [type |-> getOpenAPIType(value), example |-> value],
                  reg |-> reg]
    IN  generateProperties(Tail(entries), prefix, depth,
                           Put(properties, key, one.schema), one.reg)

(***************************************************************************)
(* Regular expressions.  Each pattern of the source is a sequence of       *)
(* alternatives, tried in order at a position, leftmost position first.    *)
(* A flag alternative reads                                                *)
(*    \s* (if lead)  lit  \s+  open-quote  inner  ([class]+)  close-quote  *)
(* where lit and inner compare case-insensitively when ci is set, the      *)
(* class is "anything but stops" or, for letters, [A-Za-z].  None of the   *)
(* patterns can match by giving characters back: the character that ends   *)
(* a greedy run is never one the run could have taken.                     *)
(***************************************************************************)
Quote1 == "'"
Quote2 == "\""
Spaces == {" ", "\n", "\t", "\r"}

NoMatch == [end |-> 0, cap |-> ""]

HasAtCI(s, i, lit) ==
    /\ i + Len(lit) - 1 <= Len(s)
    /\ \A k \in 1..Len(lit) :
          \/ CharAt(s, i + k - 1) = CharAt(lit, k)
          \/ ToLowerChar(CharAt(s, i + k - 1)) = ToLowerChar(CharAt(lit, k))

\* the end of the run of white space that starts at i
RECURSIVE SpaceEnd(_, _)
SpaceEnd(s, i) ==
    IF i <= Len(s) /\ IsSpace(CharAt(s, i)) THEN SpaceEnd(s, i + 1) ELSE i

\* the end of the run, starting at i, of characters of the alternative's class
RECURSIVE ClassEnd(_, _, _)
ClassEnd(s, i, alt) ==
    IF /\ i <= Len(s)
       /\ IF alt.letters THEN IsLetter(CharAt(s, i)) ELSE CharAt(s, i) \notin alt.stops
    THEN ClassEnd(s, i + 1, alt)
    ELSE i

Flag(lit, ci, opens, optOpen, stops, closes, optClose) ==
    [kind |-> "flag", lead |-> FALSE, lit |-> lit, ci |-> ci, opens |-> opens,
     optOpen |-> optOpen, inner |-> "", letters |-> FALSE, stops |-> stops,
     closes |-> closes, optClose |-> optClose]

\* the captured run from e to f, then the closing quote
MatchFlagClose(s, alt, e, f) ==
    IF f = e THEN NoMatch
    ELSE IF CharAt(s, f) \in alt.closes THEN [end |-> f + 1, cap |-> SubSeq(s, e, f - 1)]
    ELSE IF alt.optClose THEN [end |-> f, cap |-> SubSeq(s, e, f - 1)]
    ELSE NoMatch

\* the text after the opening quote: the header name, then the captured run
MatchFlagInner(s, alt, d) ==
    IF HasAtCI(s, d, alt.inner)
    THEN MatchFlagClose(s, alt, d + Len(alt.inner), ClassEnd(s, d + Len(alt.inner), alt))
    ELSE NoMatch

\* the white space from b to c after the flag, then the opening quote
MatchFlagOpen(s, alt, b, c) ==
    IF c = b THEN NoMatch
    ELSE IF CharAt(s, c) \in alt.opens THEN MatchFlagInner(s, alt, c + 1)
    ELSE IF alt.optOpen THEN MatchFlagInner(s, alt, c)
    ELSE NoMatch

\* the flag's literal text at a
MatchFlagLiteral(s, alt, a) ==
    IF IF alt.ci THEN HasAtCI(s, a, alt.lit) ELSE HasAt(s, a, alt.lit)
    THEN MatchFlagOpen(s, alt, a + Len(alt.lit), SpaceEnd(s, a + Len(alt.lit)))
    ELSE NoMatch

MatchFlag(s, i, alt) ==
    MatchFlagLiteral(s, alt, IF alt.lead THEN SpaceEnd(s, i) ELSE i)

\* /\\\s*\n/ : a backslash, white space, a line feed (the last one of the run)
LineFeeds(s, from, to) == {j \in from..to : CharAt(s, j) = "\n"}

LastLineFeed(feeds) ==
    IF feeds = {} THEN NoMatch
    ELSE [end |-> (CHOOSE j \in feeds : \A k \in feeds : k <= j) + 1, cap |-> ""]

MatchContinuation(s, i) ==
    IF CharAt(s, i) = "\\" THEN LastLineFeed(LineFeeds(s, i + 1, SpaceEnd(s, i + 1) - 1))
    ELSE NoMatch

\* /\s+/
NonEmpty(i, end) == IF end > i THEN [end |-> end, cap |-> ""] ELSE NoMatch

MatchSpaces(s, i) == NonEmpty(i, SpaceEnd(s, i))

\* /\s*-H\s+/
HeaderFlagAt(s, a) ==
    IF HasAt(s, a, "-H") THEN NonEmpty(a + 2, SpaceEnd(s, a + 2)) ELSE NoMatch

MatchHeaderFlag(s, i) == HeaderFlagAt(s, SpaceEnd(s, i))

MatchAlt(s, i, alt) ==
    CASE alt.kind = "flag" -> MatchFlag(s, i, alt)
      [] alt.kind = "continuation" -> MatchContinuation(s, i)
      [] alt.kind = "spaces" -> MatchSpaces(s, i)
      [] alt.kind = "headerFlag" -> MatchHeaderFlag(s, i)

\* the match of the first alternative that matches at i
RECURSIVE MatchAt(_, _, _)
MatchOrNextAlt(m, s, i, rest) == IF m.end > 0 THEN m ELSE MatchAt(s, i, rest)

MatchAt(s, i, rx) ==
    IF rx = <<>> THEN NoMatch
    ELSE MatchOrNextAlt(MatchAlt(s, i, Head(rx)), s, i, Tail(rx))

\* s.match(rx) without the g flag: the leftmost match at or after i
\* the positions from i on where the pattern matches
Hits(s, i, rx) == {j \in i..Len(s) : MatchAt(s, j, rx).end > 0}

LeftmostMatch(hits, s, rx) == IF hits = {} THEN NoMatch ELSE MatchAt(s, Min(hits), rx)

FirstMatch(s, i, rx) == LeftmostMatch(Hits(s, i, rx), s, rx)

\* s.matchAll(rx): the captures of the successive matches from i on
RECURSIVE MatchAll(_, _, _)
CaptureAndGoOn(m, s, rx) ==
    IF m.end = 0 THEN <<>> ELSE <<m.cap>> \o MatchAll(s, m.end, rx)

MatchAll(s, i, rx) == CaptureAndGoOn(FirstMatch(s, i, rx), s, rx)

\* s.replace(rx, rep) with the g flag
RECURSIVE ReplaceAll(_, _, _, _)
ReplaceMatch(m, s, i, at, rx, rep) ==
    SubSeq(s, i, at - 1) \o rep \o ReplaceAll(s, m.end, rx, rep)

ReplaceFirst(hits, s, i, rx, rep) ==
    IF hits = {} THEN From(s, i)
    ELSE ReplaceMatch(MatchAt(s, Min(hits), rx), s, i, Min(hits), rx, rep)

ReplaceAll(s, i, rx, rep) == ReplaceFirst(Hits(s, i, rx), s, i, rx, rep)

\* s.trim()
RECURSIVE TrimStart(_)
TrimStart(s) == IF s # "" /\ IsSpace(Head(s)) THEN TrimStart(Tail(s)) ELSE s

RECURSIVE TrimEnd(_)
TrimEnd(s) ==
    IF s # "" /\ IsSpace(CharAt(s, Len(s))) THEN TrimEnd(SubSeq(s, 1, Len(s) - 1)) ELSE s

Trim(s) == TrimEnd(TrimStart(s))

(***************************************************************************)
(* JSON.parse, by recursive descent, for JSON texts whose strings hold no  *)
(* escapes and whose numbers have no exponent (the texts of the model).    *)
(* A parser returns [ok, val, next]: next is the position after the value. *)
(***************************************************************************)
Failed == [ok |-> FALSE, val |-> Undefined, next |-> 0]

Parsed(val, next) == [ok |-> TRUE, val |-> val, next |-> next]

RECURSIVE DigitEnd(_, _)
DigitEnd(s, i) ==
    IF i <= Len(s) /\ IsDigit(CharAt(s, i)) THEN DigitEnd(s, i + 1) ELSE i

\* -? (0 | [1-9][0-9]*) (. [0-9]+)?
JsonNumber(s, i) ==
    LET a == IF CharAt(s, i) = "-" THEN i + 1 ELSE i
        b == DigitEnd(s, a)
        intOk == b > a /\ (CharAt(s, a) = "0" => b = a + 1)
        c == IF CharAt(s, b) = "." THEN DigitEnd(s, b + 1) ELSE b
        fracOk == CharAt(s, b) = "." => c > b + 1
    IN  IF intOk /\ fracOk THEN Parsed(Num(SubSeq(s, i, c - 1)), c) ELSE Failed

JsonString(s, i) ==
    LET close == IndexOf(s, Quote2, i + 1)
    IN  IF CharAt(s, i) = Quote2 /\ close > 0
           /\ \A j \in i + 1..close - 1 : CharAt(s, j) \notin {"\\", "\n", "\t", "\r"}
        THEN Parsed(Str(SubSeq(s, i + 1, close - 1)), close + 1)
        ELSE Failed

RECURSIVE JsonValue(_, _)
RECURSIVE JsonElements(_, _, _)
RECURSIVE JsonMembers(_, _, _)

JsonValue(s, at) ==
    LET i == SpaceEnd(s, at)
        c == CharAt(s, i)
    IN  CASE c = "{" ->
                IF CharAt(s, SpaceEnd(s, i + 1)) = "}"
                THEN Parsed(Obj(EmptyMap), SpaceEnd(s, i + 1) + 1)
                ELSE JsonMembers(s, i + 1, EmptyMap)
          [] c = "[" ->
                IF CharAt(s, SpaceEnd(s, i + 1)) = "]"
                THEN Parsed(Arr(<<>>), SpaceEnd(s, i + 1) + 1)
                ELSE JsonElements(s, i + 1, <<>>)
          [] c = Quote2 -> JsonString(s, i)
          [] HasAt(s, i, "true") -> Parsed(Bool(TRUE), i + 4)
          [] HasAt(s, i, "false") -> Parsed(Bool(FALSE), i + 5)
          [] HasAt(s, i, "null") -> Parsed(Null, i + 4)
          [] OTHER -> JsonNumber(s, i)

\* value (, value)* ]
AfterElement(s, j, elements) ==
    IF CharAt(s, j) = "," THEN JsonElements(s, j + 1, elements)
    ELSE IF CharAt(s, j) = "]" THEN Parsed(Arr(elements), j + 1)
    ELSE Failed

Element(s, v, sofar) ==
    IF v.ok THEN AfterElement(s, SpaceEnd(s, v.next), Append(sofar, v.val)) ELSE Failed

JsonElements(s, at, sofar) == Element(s, JsonValue(s, at), sofar)

\* string : value (, string : value)* }   a repeated key keeps its last value
AfterMember(s, j, members) ==
    IF CharAt(s, j) = "," THEN JsonMembers(s, j + 1, members)
    ELSE IF CharAt(s, j) = "}" THEN Parsed(Obj(members), j + 1)
    ELSE Failed

MemberValue(s, key, v, sofar) ==
    IF v.ok THEN AfterMember(s, SpaceEnd(s, v.next), Put(sofar, key, v.val)) ELSE Failed

MemberColon(s, key, colon, sofar) ==
    IF CharAt(s, colon) = ":" THEN MemberValue(s, key, JsonValue(s, colon + 1), sofar)
    ELSE Failed

Member(s, key, sofar) ==
    IF key.ok THEN MemberColon(s, key.val.s, SpaceEnd(s, key.next), sofar) ELSE Failed

JsonMembers(s, at, sofar) == Member(s, JsonString(s, SpaceEnd(s, at)), sofar)

\* JSON.parse(text): [ok, val]; ok is FALSE where JSON.parse throws
WholeText(text, v) ==
    IF v.ok /\ SpaceEnd(text, v.next) = Len(text) + 1
    THEN [ok |-> TRUE, val |-> v.val]
    ELSE [ok |-> FALSE, val |-> Undefined]

JsonParse(text) == WholeText(text, JsonValue(text, 1))

(***************************************************************************)
(* CurlParser.parse                                                        *)
(*                                                                         *)
(* A ParsedCurl is [threw, method, url, headers, queryParams, data,        *)
(* contentType]; contentType "" stands for undefined (both are falsy where *)
(* the source tests it), and threw is TRUE when the call ended in an       *)
(* exception instead of a result.                                          *)
(***************************************************************************)
Quotes == {Quote1, Quote2}

\* /curl\s+'([^']+)'|curl\s+"([^"]+)"|curl\s+([^\s]+)/
UrlRx ==
    <<Flag("curl", FALSE, {Quote1}, FALSE, {Quote1}, {Quote1}, FALSE),
      Flag("curl", FALSE, {Quote2}, FALSE, {Quote2}, {Quote2}, FALSE),
      Flag("curl", FALSE, {}, TRUE, Spaces, {}, TRUE)>>

\* /-X\s+([A-Z]+)/i
MethodRx == <<[Flag("-X", TRUE, {}, TRUE, {}, {}, TRUE) EXCEPT !.letters = TRUE]>>

\* /-H\s+'([^']+)'|-H\s+"([^"]+)"/g
HeaderRx ==
    <<Flag("-H", FALSE, {Quote1}, FALSE, {Quote1}, {Quote1}, FALSE),
      Flag("-H", FALSE, {Quote2}, FALSE, {Quote2}, {Quote2}, FALSE)>>

\* /--data-raw\s+['"]?([^'"\s]+)['"]?/gi
DataRawRx == <<Flag("--data-raw", TRUE, Quotes, TRUE, Quotes \cup Spaces, Quotes, TRUE)>>

\* /(?:-d|--data)\s+['"]([^'"]+)['"]/gi
DataRx ==
    <<Flag("-d", TRUE, Quotes, FALSE, Quotes, Quotes, FALSE),
      Flag("--data", TRUE, Quotes, FALSE, Quotes, Quotes, FALSE)>>

\* /--data-urlencode\s+['"]?([^'"\s]+)['"]?/gi
UrlEncRx ==
    <<Flag("--data-urlencode", TRUE, Quotes, TRUE, Quotes \cup Spaces, Quotes, TRUE)>>

\* /(?:-F|--form)\s+['"]([^'"]+)['"]/gi
FormRx ==
    <<Flag("-F", TRUE, Quotes, FALSE, Quotes, Quotes, FALSE),
      Flag("--form", TRUE, Quotes, FALSE, Quotes, Quotes, FALSE)>>

\* the first position >= i of a character of stops, Len(s) + 1 when there is none
RECURSIVE StopAt(_, _, _)
StopAt(s, i, stops) ==
    IF i > Len(s) \/ CharAt(s, i) \in stops THEN i ELSE StopAt(s, i + 1, stops)

\* searchParams.forEach((value, key) => queryParams[key] = value), for a query
\* string without percent escapes and without "+"
RECURSIVE SearchParams(_, _)
SearchParams(pieces, sofar) ==
    IF pieces = <<>> THEN sofar
    ELSE LET piece == Head(pieces)
             eq == IndexOf(piece, "=", 1)
             key == IF eq = 0 THEN piece ELSE SubSeq(piece, 1, eq - 1)
             value == IF eq = 0 THEN "" ELSE From(piece, eq + 1)
         IN  SearchParams(Tail(pieces),
                          IF piece = "" THEN sofar ELSE Put(sofar, key, value))

\* new URL(url) for http and https URLs with a plain host and path; any text
\* that does not begin with a scheme makes the constructor throw (ok = FALSE)
ParseUrl(url) ==
    LET scheme == IF HasAtCI(url, 1, "https://") THEN "https"
                  ELSE IF HasAtCI(url, 1, "http://") THEN "http" ELSE ""
        hostAt == Len(scheme) + 4
        hostEnd == StopAt(url, hostAt, {"/", "?", "#"})
        pathEnd == StopAt(url, hostEnd, {"?", "#"})
        queryEnd == StopAt(url, pathEnd, {"#"})
        path == SubSeq(url, hostEnd, pathEnd - 1)
        query == IF CharAt(url, pathEnd) = "?" THEN SubSeq(url, pathEnd + 1, queryEnd - 1)
                 ELSE ""
    IN  IF scheme = "" \/ hostEnd = hostAt
        THEN [ok |-> FALSE, origin |-> "", pathname |-> "", searchParams |-> EmptyMap]
        ELSE [ok |-> TRUE,
              origin |-> scheme \o "://" \o ToLowerCase(SubSeq(url, hostAt, hostEnd - 1)),
              pathname |-> IF path = "" THEN "/" ELSE path,
              searchParams |-> SearchParams(Split(query, "&"), EmptyMap)]

HexDigits == "0123456789abcdefABCDEF"

\* decodeURIComponent(val): %20 and %40 are the escapes of the model; a "%"
\* that two hex digits do not follow is a URIError (ok = FALSE)
RECURSIVE decodeURIComponent(_)
decodeURIComponent(val) ==
    IF val = "" THEN [ok |-> TRUE, s |-> ""]
    ELSE IF Head(val) # "%"
    THEN LET rest == decodeURIComponent(Tail(val))
         IN  [ok |-> rest.ok, s |-> Head(val) \o rest.s]
    ELSE IF Len(val) >= 3 /\ PosIn(CharAt(val, 2), HexDigits) > 0
                          /\ PosIn(CharAt(val, 3), HexDigits) > 0
    THEN LET rest == decodeURIComponent(From(val, 4))
             code == SubSeq(val, 2, 3)
         IN  [ok |-> rest.ok,
              s |-> (IF code = "20" THEN " " ELSE IF code = "40" THEN "@"
                     ELSE SubSeq(val, 1, 3)) \o rest.s]
    ELSE [ok |-> FALSE, s |-> ""]

\* headers: [key, ...valueParts] = header.split(": ")
RECURSIVE ParseHeaders(_, _)
ParseHeaders(matches, sofar) ==
    IF matches = <<>> THEN sofar
    ELSE LET parts == Split(Head(matches), ": ")
             key == parts[1]
             value == Join(Tail(parts), ": ")
         IN  ParseHeaders(Tail(matches),
                 [headers |-> Put(sofar.headers, key, value),
                  contentType |-> IF ToLowerCase(key) = "content-type" THEN value
                                  ELSE sofar.contentType])

\* formMatches.forEach: [key, val] = pair.split("="), values kept as written
RECURSIVE FormFields(_, _)
FormFields(pairs, sofar) ==
    IF pairs = <<>> THEN sofar
    ELSE LET parts == Split(Head(pairs), "=")
         IN  FormFields(Tail(pairs),
                        IF Len(parts) >= 2 THEN Put(sofar, parts[1], Str(parts[2]))
                        ELSE sofar)

\* the key=value pieces of the chunks, each chunk split at "&"
RECURSIVE Pieces(_)
Pieces(chunks) ==
    IF chunks = <<>> THEN <<>> ELSE Split(Head(chunks), "&") \o Pieces(Tail(chunks))

\* kv.split("="), data[key] = decodeURIComponent(val): [ok, o]
RECURSIVE UrlEncodedFields(_, _)
UrlEncodedFields(kvs, sofar) ==
    IF kvs = <<>> THEN [ok |-> TRUE, o |-> sofar]
    ELSE LET parts == Split(Head(kvs), "=")
             decoded == decodeURIComponent(parts[2])
         IN  IF Len(parts) < 2 THEN UrlEncodedFields(Tail(kvs), sofar)
             ELSE IF ~decoded.ok THEN [ok |-> FALSE, o |-> sofar]
             ELSE UrlEncodedFields(Tail(kvs), Put(sofar, parts[1], Str(decoded.s)))

FormUrlEncoded == "application/x-www-form-urlencoded"

ParseThrew ==
    [threw |-> TRUE, method |-> "", url |-> "", headers |-> EmptyMap,
     queryParams |-> EmptyMap, data |-> Undefined, contentType |-> ""]

\* "If there's any body/form but no explicit -X, assume POST"
DefaultMethod(hasBody) == IF hasBody THEN "POST" ELSE "GET"

\* url and queryParams: new URL(url) succeeded, or the catch kept the text
UrlFields(urlMatch, parsedUrl) ==
    IF urlMatch.end = 0 THEN [url |-> "", queryParams |-> EmptyMap]
    ELSE IF parsedUrl.ok
    THEN [url |-> parsedUrl.origin \o parsedUrl.pathname,
          queryParams |-> parsedUrl.searchParams]
    ELSE [url |-> urlMatch.cap, queryParams |-> EmptyMap]

\* the explicit -X method, or the default
MethodOf(methodMatch, hasBody) ==
    IF methodMatch.end > 0 THEN ToUpperCase(methodMatch.cap) ELSE DefaultMethod(hasBody)

\* the result before the body flags are processed
Result(urlFields, method, head) ==
    [threw |-> FALSE, method |-> method, url |-> urlFields.url,
     headers |-> head.headers, queryParams |-> urlFields.queryParams,
     data |-> Undefined, contentType |-> head.contentType]

\* "Process URL-encoded bodies"; decodeURIComponent may throw
UrlEncodedBody(result, encoded) ==
    IF ~encoded.ok THEN ParseThrew
    ELSE [result EXCEPT
             !.contentType = IF result.contentType # "" THEN result.contentType
                             ELSE FormUrlEncoded,
             !.data = Obj(encoded.o)]

\* raw payload under a declared application/x-www-form-urlencoded
RawEncodedBody(result, encoded) ==
    IF ~encoded.ok THEN ParseThrew ELSE [result EXCEPT !.data = Obj(encoded.o)]

\* try { JSON.parse(raw) } catch { raw }
RawJsonBody(result, raw, json) ==
    IF json.ok THEN [result EXCEPT !.data = json.val, !.contentType = "application/json"]
    ELSE [result EXCEPT !.data = Str(raw), !.contentType = "text/plain"]

\* "Process raw JSON or other payloads"
RawBody(result, raw) ==
    IF result.contentType = FormUrlEncoded
    THEN RawEncodedBody(result, UrlEncodedFields(Pieces(<<raw>>), EmptyMap))
    ELSE RawJsonBody(result, raw, JsonParse(raw))

\* the three branches, in the order form, url-encoded, raw
ProcessBody(result, dataRawMatches, dataMatches, urlEncMatches, formMatches) ==
    IF formMatches # <<>>
    THEN [result EXCEPT !.contentType = "multipart/form-data",
                        !.data = Obj(FormFields(formMatches, EmptyMap))]
    ELSE IF dataMatches # <<>> \/ urlEncMatches # <<>>
    THEN UrlEncodedBody(result,
             UrlEncodedFields(Pieces(dataMatches \o urlEncMatches), EmptyMap))
    ELSE IF dataRawMatches # <<>> THEN RawBody(result, Join(dataRawMatches, "&"))
    ELSE result

ParseMatches(urlMatch, methodMatch, head, dataRawMatches, dataMatches, urlEncMatches, formMatches) ==
    ProcessBody(
        Result(UrlFields(urlMatch, ParseUrl(urlMatch.cap)),
               MethodOf(methodMatch,
                        dataRawMatches # <<>> \/ dataMatches # <<>>
                        \/ urlEncMatches # <<>> \/ formMatches # <<>>),
               head),
        dataRawMatches, dataMatches, urlEncMatches, formMatches)

parse(curlCommand) ==
    ParseMatches(FirstMatch(curlCommand, 1, UrlRx),
                 FirstMatch(curlCommand, 1, MethodRx),
                 ParseHeaders(MatchAll(curlCommand, 1, HeaderRx),
                              [headers |-> EmptyMap, contentType |-> ""]),
                 MatchAll(curlCommand, 1, DataRawRx),
                 MatchAll(curlCommand, 1, DataRx),
                 MatchAll(curlCommand, 1, UrlEncRx),
                 MatchAll(curlCommand, 1, FormRx))

(***************************************************************************)
(* OpenAPIGenerator.generate                                               *)
(*                                                                         *)
(* options is [urlTemplate, operationName, summary, tags], "" and <<>>     *)
(* standing for an option that is not given.                               *)
(***************************************************************************)
\* path.replace(/[{}]/g, "").replace(/\//g, "_")
RECURSIVE CleanPath(_)
CleanPath(path) ==
    IF path = "" THEN ""
    ELSE (IF Head(path) \in {"{", "}"} THEN ""
          ELSE IF Head(path) = "/" THEN "_" ELSE Head(path))
         \o CleanPath(Tail(path))

\* s.replace(/^_+|_+$/g, "")
RECURSIVE StripUnderscores(_)
StripUnderscores(s) ==
    IF s # "" /\ Head(s) = "_" THEN StripUnderscores(Tail(s))
    ELSE IF s # "" /\ CharAt(s, Len(s)) = "_"
    THEN StripUnderscores(SubSeq(s, 1, Len(s) - 1))
    ELSE s

generateOperationId(method, path) ==
    StripUnderscores(ToLowerCase(method) \o "_" \o CleanPath(path))

\* url.split("?")[0].replace(/^https?:\/\/[^\/]+/, "")
PathOfUrl(url) ==
    LET u == Split(url, "?")[1]
        hostAt == IF HasAt(u, 1, "https://") THEN 9
                  ELSE IF HasAt(u, 1, "http://") THEN 8 ELSE 0
        hostEnd == StopAt(u, hostAt, {"/"})
    IN  IF hostAt > 0 /\ hostEnd > hostAt THEN From(u, hostEnd) ELSE u

\* template.match(/{([^}]+)}/g)?.map((param) => param.slice(1, -1)) || []
RECURSIVE PathParams(_, _)
PathParams(s, i) ==
    IF i > Len(s) THEN <<>>
    ELSE LET close == StopAt(s, i + 1, {"}"})
         IN  IF CharAt(s, i) = "{" /\ close > i + 1 /\ close <= Len(s)
             THEN <<SubSeq(s, i + 1, close - 1)>> \o PathParams(s, close + 1)
             ELSE PathParams(s, i + 1)

InSeq(x, q) == \E i \in 1..Len(q) : q[i] = x

\* the entries of m whose key is not in the sequence keys
RECURSIVE Without(_, _)
Without(m, keys) ==
    IF m = <<>> THEN <<>>
    ELSE (IF InSeq(Head(m).k, keys) THEN <<>> ELSE <<Head(m)>>) \o Without(Tail(m), keys)

\* a mapping of strings as a JSON object of strings
StringObject(m) == Obj([i \in 1..Len(m) |-> KV(m[i].k, Str(m[i].v))])

SchemaTypeOf(tried) ==
    IF ~tried.ok THEN "string"
    ELSE IF tried.val.t = "arr" THEN "array"
    ELSE IF tried.val.t \in {"obj", "null"} THEN "object"
    ELSE "string"

TypedParameter(key, schemaType, example) ==
    [name |-> key, in |-> "query", required |-> FALSE,
     schema |-> CASE schemaType = "array" ->
                        [type |-> "array", items |-> [type |-> "string"]]
                  [] schemaType = "object" ->
                        [type |-> "object", properties |-> EmptyMap]
                  [] OTHER -> [type |-> schemaType],
     example |-> example]

\* tried: the outcome of try { JSON.parse(value) }
TriedParameter(key, value, tried) ==
    TypedParameter(key, SchemaTypeOf(tried), IF tried.ok THEN tried.val ELSE Str(value))

\* one query parameter of generateParameters (lines 170-211)
QueryParameter(key, value) == TriedParameter(key, value, JsonParse(value))

generateParameters(curl, pathName, urlTemplate) ==
    LET pathParams == IF urlTemplate # "" THEN PathParams(urlTemplate, 1)
                      ELSE PathParams(pathName, 1)
        query == Without(curl.queryParams, pathParams)
    IN  [i \in 1..Len(pathParams) |->
            [name |-> pathParams[i], in |-> "path", required |-> TRUE,
             schema |-> [type |-> "string"]]]
        \o [i \in 1..Len(query) |-> QueryParameter(query[i].k, query[i].v)]
        \o [i \in 1..Len(curl.headers) |->
               [name |-> curl.headers[i].k, in |-> "header", required |-> FALSE,
                schema |-> [type |-> "string"], example |-> Str(curl.headers[i].v)]]

\* new URLSearchParams(formData): a mapping gives its own pairs, a string is
\* split at "&" and "=" (escapes are not modelled)
parseFormData(formData) ==
    IF formData.t = "obj" THEN formData
    ELSE IF formData.t = "str"
    THEN StringObject(SearchParams(Split(formData.s, "&"), EmptyMap))
    ELSE Obj(EmptyMap)

getContentType(contentType) ==
    IF contentType = "" THEN "application/json" ELSE contentType

NoOptions == [urlTemplate |-> "", operationName |-> "", summary |-> "", tags |-> <<>>]

\* the request body's schema, when there is data (lines 273-292)
RequestSchema(curl, schemaPrefix, reg) ==
    IF ~Truthy(curl.data) THEN [schema |-> Undefined, reg |-> reg]
    ELSE IF curl.contentType = FormUrlEncoded
    THEN generateSchema(parseFormData(curl.data), schemaPrefix \o "Request", 0, reg)
    ELSE generateSchema(curl.data, schemaPrefix \o "Request", 0, reg)

\* the entries of components.schemas written before ...schemas (lines 362-371)
TopSchemas(curl, schemaPrefix, filteredQueryParams, resp, req, qry) ==
    <<[name |-> schemaPrefix \o "Response", schema |-> resp.schema]>>
    \o (IF Truthy(curl.data)
        THEN <<[name |-> schemaPrefix \o "Request", schema |-> req.schema]>>
        ELSE <<>>)
    \o (IF Len(filteredQueryParams) > 0
        THEN <<[name |-> schemaPrefix \o "Query", schema |-> qry.schema]>>
        ELSE <<>>)

\* the operation object (lines 322-359)
Operation(curl, options, pathName, operationId, schemaPrefix) ==
    [operationId |-> operationId,
     summary |-> IF options.summary # "" THEN options.summary
                 ELSE IF options.operationName # ""
                 THEN capitalizeFirstLetter(options.operationName)
                 ELSE curl.method \o " " \o pathName,
     tags |-> [i \in 1..Len(options.tags) |-> capitalizeFirstLetter(options.tags[i])],
     parameters |-> generateParameters(curl, pathName, options.urlTemplate),
     requestBody |->
         IF Truthy(curl.data)
         THEN [present |-> TRUE, required |-> TRUE,
               content |-> <<KV(getContentType(curl.contentType),
                                [schema |-> RefTo(schemaPrefix \o "Request")])>>]
         ELSE [present |-> FALSE],
     responses |->
         <<KV("200", [description |-> "Successful response",
                      content |-> <<KV("application/json",
                          [schema |-> RefTo(schemaPrefix \o "Response")])>>])>>]

\* the entries of a map as assignments of a schema to a name
Assignments(schemas) ==
    [i \in 1..Len(schemas) |-> [name |-> schemas[i].k, schema |-> schemas[i].v]]

\* the returned object: components.schemas is the top entries, then ...schemas
Assemble(curl, pathName, operation, top, registry) ==
    [openapi |->
        [paths |-> <<KV(pathName, <<KV(ToLowerCase(curl.method), operation)>>)>>,
         schemas |-> Spread([i \in 1..Len(top) |-> KV(top[i].name, top[i].schema)],
                            registry.schemas)],
     writes |-> registry.writes \o top \o Assignments(registry.schemas)]

WithQuerySchema(curl, options, pathName, operationId, schemaPrefix, filteredQueryParams, resp, req, qry) ==
    Assemble(curl, pathName,
             Operation(curl, options, pathName, operationId, schemaPrefix),
             TopSchemas(curl, schemaPrefix, filteredQueryParams, resp, req, qry),
             qry.reg)

WithRequestSchema(curl, options, pathName, operationId, schemaPrefix, filteredQueryParams, resp, req) ==
    WithQuerySchema(curl, options, pathName, operationId, schemaPrefix,
                    filteredQueryParams, resp, req,
                    generateSchema(StringObject(filteredQueryParams),
                                   schemaPrefix \o "Query", 0, req.reg))

WithResponseSchema(curl, options, pathName, operationId, schemaPrefix, resp) ==
    WithRequestSchema(curl, options, pathName, operationId, schemaPrefix,
                      Without(curl.queryParams, PathParams(pathName, 1)),
                      resp, RequestSchema(curl, schemaPrefix, resp.reg))

WithOperationId(curl, response, options, pathName, operationId) ==
    WithResponseSchema(curl, options, pathName, operationId,
                       capitalizeFirstLetter(operationId),
                       generateSchema(response, capitalizeFirstLetter(operationId),
                                      0, EmptyRegistry))

WithPathName(curl, response, options, pathName) ==
    WithOperationId(curl, response, options, pathName,
                    IF options.operationName # "" THEN options.operationName
                    ELSE generateOperationId(curl.method, pathName))

\* returns [openapi, writes]: the document, and every assignment of a schema to
\* a name made on the way, in order (the registry's, then components.schemas')
generate(curl, response, options) ==
    WithPathName(curl, response, options,
                 IF options.urlTemplate # "" THEN options.urlTemplate
                 ELSE PathOfUrl(curl.url))

(***************************************************************************)
(* The pipeline parse -> generate over curl commands.                      *)
(*                                                                         *)
(* A command is the sequence of its arguments after the word curl; an      *)
(* argument is [flag, quote, value]: the flag ("" for the URL), the quote  *)
(* character around the value as typed ("" for none) and the value.  The   *)
(* text handed to parse is Render(command).                                *)
(***************************************************************************)
MaxBodyFlags == 2

Arg(flag, quote, value) == [flag |-> flag, quote |-> quote, value |-> value]

RECURSIVE RenderArgs(_)
RenderArgs(args) ==
    IF args = <<>> THEN ""
    ELSE " " \o (IF Head(args).flag = "" THEN "" ELSE Head(args).flag \o " ")
         \o Head(args).quote \o Head(args).value \o Head(args).quote
         \o RenderArgs(Tail(args))

Render(args) == "curl" \o RenderArgs(args)

ExampleOrigin == "https://api.example.com"

UrlArgs ==
    {Arg("", Quote1, ExampleOrigin \o "/users"),
     Arg("", "", "https://h/items?q=1")}

MethodArgs == {Arg("-X", "", "POST")}

HeaderArgs ==
    {Arg("-H", Quote1, "Content-Type: application/json"),
     Arg("-H", Quote2, "Content-Type: application/x-www-form-urlencoded")}

FormFlags == {"-F", "--form"}
UrlEncodedFlags == {"-d", "--data", "--data-urlencode"}
RawFlags == {"--data-raw"}
BodyFlags == FormFlags \cup UrlEncodedFlags \cup RawFlags

BodyArgs ==
    {Arg("-d", Quote1, "{\"name\":\"John\"}"),
     Arg("-d", Quote1, "a=b"),
     Arg("-d", "", "a=b"),
     Arg("-d", Quote1, "novalue"),
     Arg("-d", Quote1, "p=100%"),
     Arg("--data", Quote2, "c=d%20e"),
     Arg("--data-urlencode", Quote1, "e=f"),
     Arg("-F", Quote1, "name=John"),
     Arg("-F", Quote1, "age=30"),
     Arg("-F", "", "name=John"),
     Arg("--data-raw", Quote1, "{\"a\":1}"),
     Arg("--data-raw", "", "[1,2]"),
     Arg("--data-raw", "", "0"),
     Arg("--data-raw", Quote1, "hello world")}

\* every sequence over S of length at most n
RECURSIVE SeqsUpTo(_, _)
SeqsUpTo(S, n) ==
    IF n = 0 THEN {<<>>}
    ELSE LET shorter == SeqsUpTo(S, n - 1)
         IN  shorter \cup {Append(q, x) : q \in {p \in shorter : Len(p) = n - 1}, x \in S}

\* curl [-X VERB] URL [-X VERB] [-H header] [body flags]
Commands ==
    {m1 \o <<u>> \o m2 \o h \o b :
        m1 \in SeqsUpTo(MethodArgs, 1), u \in UrlArgs,
        m2 \in {<<>>}, h \in SeqsUpTo(HeaderArgs, 1),
        b \in SeqsUpTo(BodyArgs, MaxBodyFlags)}
    \cup
    {<<u>> \o m2 \o h \o b :
        u \in UrlArgs, m2 \in {<<Arg("-X", "", "put")>>},
        h \in SeqsUpTo(HeaderArgs, 1), b \in SeqsUpTo(BodyArgs, MaxBodyFlags)}

Responses ==
    {Obj(<<KV("id", Num("1")), KV("name", Str("John"))>>),
     Obj(<<KV("request", Obj(<<KV("id", Num("1"))>>)), KV("ok", Bool(TRUE))>>),
     Obj(<<KV("tags", Arr(<<Obj(<<KV("id", Num("1"))>>)>>)),
           KV("tagsItem", Obj(<<KV("label", Str("x"))>>))>>),
     Arr(<<Obj(<<KV("id", Num("1")), KV("owner", Null)>>)>>),
     Arr(<<Null, Num("1")>>),
     Null}

OptionSets ==
    {NoOptions,
     [NoOptions EXCEPT !.operationName = "createUser", !.tags = <<"users">>],
     [NoOptions EXCEPT !.urlTemplate = "/users/{id}"],
     [NoOptions EXCEPT !.urlTemplate = "/users/{id}/posts/{postId}"],
     [NoOptions EXCEPT !.urlTemplate = "/users/:id/edit"]}

NoDocumentYet == [paths |-> EmptyMap, schemas |-> EmptyMap]

\* the file names of the runs: the file given to --append and the default of
\* --output
AppendFile == "api.yaml"
DefaultOutput == "swagger.yaml"
FileNames == {AppendFile, DefaultOutput}

NoFile == [kind |-> "missing", doc |-> NoDocumentYet]

NoRunOptions == [append |-> "", outputPath |-> "", name |-> ""]

\* no run started: pc is the position in the action, exit the exit code (-1
\* while the process runs), saved whether saveToFile was called, before the
\* file system when the run started
NoRun ==
    [n |-> 0, pc |-> "idle", options |-> NoRunOptions,
     input |-> [command |-> "", response |-> Null],
     openapi |-> NoDocumentYet, error |-> "", exit |-> -1, saved |-> FALSE]

CliIdle ==
    /\ files = [f \in FileNames |-> NoFile]
    /\ run = [variant |-> "later", before |-> [f \in FileNames |-> NoFile]] @@ NoRun

CurlIdle ==
    /\ command = <<>>
    /\ parsed = ParseThrew
    /\ generated = [options |-> NoOptions, response |-> Null, openapi |-> NoDocumentYet]
    /\ schemaWrites = <<>>
    /\ pc = "idle"
    /\ passes = <<>>
    /\ operationCalls = <<>>
    /\ CliIdle

CurlInit ==
    /\ command \in Commands
    /\ parsed = ParseThrew
    /\ generated = [options |-> NoOptions, response |-> Null, openapi |-> NoDocumentYet]
    /\ schemaWrites = <<>>
    /\ pc = "start"
    /\ passes = <<>>
    /\ operationCalls = <<>>
    /\ CliIdle
    /\ openapi = NoDocumentYet
    /\ existingFile = [kind |-> "missing", doc |-> NoDocumentYet]
    /\ mergeResult = [kind |-> "none"]

\* const parsed = CurlParser.parse(sanitized): every text of Commands is one
\* that sanitize returns unchanged, so the sanitized text is the typed one
Parse ==
    /\ pc = "start"
    /\ parsed' = parse(Render(command))
    /\ pc' = "parsed"
    /\ UNCHANGED <<command, generated, schemaWrites, mergeVars, sanitizeVars, idVars, cliVars>>

\* OpenAPIGenerator.generate(parsed, responseData, openAPIOptions)
Generate ==
    /\ pc = "parsed"
    /\ ~parsed.threw
    /\ \E response \in Responses, options \in OptionSets :
          LET out == generate(parsed, response, options)
          IN  /\ generated' = [options |-> options, response |-> response,
                               openapi |-> out.openapi]
              /\ schemaWrites' = out.writes
    /\ pc' = "generated"
    /\ UNCHANGED <<command, parsed, mergeVars, sanitizeVars, idVars, cliVars>>

CurlNext == Parse \/ Generate

SpecCurl == CurlInit /\ [][CurlNext]_vars

MaxQueryParams == 2

\* key=value pieces of a query string: plain text and JSON texts
QueryPieces ==
    {"q=1", "r=[1,2,3]", "o={\"a\":1}", "n=null", "b=true", "s=abc", "id=5"}

QueryStrings ==
    {Join(pieces, "&") :
        pieces \in {p \in SeqsUpTo(QueryPieces, MaxQueryParams) : p # <<>>}}

\* curl '<url>?<query>'
QueryCommands == {<<Arg("", Quote1, "https://h/users/5?" \o query)>> : query \in QueryStrings}

QueryInit ==
    /\ command \in QueryCommands
    /\ parsed = ParseThrew
    /\ generated = [options |-> NoOptions, response |-> Null, openapi |-> NoDocumentYet]
    /\ schemaWrites = <<>>
    /\ pc = "start"
    /\ passes = <<>>
    /\ operationCalls = <<>>
    /\ CliIdle
    /\ openapi = NoDocumentYet
    /\ existingFile = [kind |-> "missing", doc |-> NoDocumentYet]
    /\ mergeResult = [kind |-> "none"]

SpecQuery == QueryInit /\ [][CurlNext]_vars

(***************************************************************************)
(* OpenAPIGenerator.mergeWithExisting                                      *)
(*                                                                         *)
(* A document is [paths, schemas]: paths maps a path key to a map from a   *)
(* method key to an operation, schemas is components.schemas.  An          *)
(* operationId of "" stands for an operation without one (undefined and "" *)
(* are both falsy at the test `if (operation.operationId)`).               *)
(***************************************************************************)
MaxPaths == 2
MaxNewPaths == 1
MaxMethods == 2
MaxSchemas == 1

PathKeys == {"/a", "/b"}
MethodKeys == {"get", "post"}
OperationIds == {"", "x", "y"}
SchemaNames == {"S"}

OperationObjects == [operationId : OperationIds]

\* the path items of the model list "get" before "post"
PathItems ==
    {m \in OrderedMaps(MethodKeys, OperationObjects, MaxMethods) :
        /\ m # EmptyMap
        /\ m[1].k = "post" => Len(m) = 1}

\* the documents on disk, and the new documents handed to the merge
Documents ==
    [paths : OrderedMaps(PathKeys, PathItems, MaxPaths),
     schemas : OrderedMaps(SchemaNames, {"old"}, MaxSchemas)]

NewDocuments ==
    [paths : OrderedMaps(PathKeys, PathItems, MaxNewPaths),
     schemas : OrderedMaps(SchemaNames, {"new"}, MaxSchemas)]

\* what fs.readFileSync(appendPath) and yaml.load give:
\*   missing - readFileSync throws;  invalid - yaml.load throws;
\*   null    - an empty file (yaml.load returns no value);
\*   scalar  - a YAML scalar such as the text `hello` (a string, not a document);
\*   doc     - a document object
NoDocument == [paths |-> EmptyMap, schemas |-> EmptyMap]

ExistingFiles ==
    {[kind |-> k, doc |-> NoDocument] : k \in {"missing", "invalid", "null", "scalar"}}
    \cup {[kind |-> "doc", doc |-> d] : d \in Documents}

\* the (path, method, operation) triples of a document in for-in order
RECURSIVE Operations(_)
Operations(paths) ==
    IF paths = <<>> THEN <<>>
    ELSE LET item == Head(paths)
         IN  [i \in 1..Len(item.v) |->
                 [path |-> item.k, method |-> item.v[i].k, operation |-> item.v[i].v]]
             \o Operations(Tail(paths))

NotFound == [exists |-> FALSE, path |-> "", method |-> ""]

\* the scan gives up after the first path key
findDuplicateOperationId_FirstPathOnly(doc, operationId) ==
    LET ops == Operations(IF doc.paths = <<>> THEN <<>> ELSE <<Head(doc.paths)>>)
        hits == {i \in 1..Len(ops) : ops[i].operation.operationId = operationId}
    IN  IF hits = {} THEN NotFound
        ELSE [exists |-> TRUE, path |-> ops[Min(hits)].path, method |-> ops[Min(hits)].method]

\* the first (path, method) of doc, in for-in order, whose operation has the id
findDuplicateOperationId(doc, operationId) ==
    LET ops == Operations(doc.paths)
        hits == {i \in 1..Len(ops) : ops[i].operation.operationId = operationId}
    IN  IF hits = {} THEN NotFound
        ELSE [exists |-> TRUE, path |-> ops[Min(hits)].path, method |-> ops[Min(hits)].method]

NoDetails ==
    [operationId |-> "", existingPath |-> "", existingMethod |-> "",
     newPath |-> "", newMethod |-> "", cause |-> ""]

NotCalled == [kind |-> "none", code |-> "", details |-> NoDetails]

Returned == [kind |-> "returned", code |-> "", details |-> NoDetails]

Threw(code, details) == [kind |-> "threw", code |-> code, details |-> details]

MergeError(cause) == Threw("MERGE_ERROR", [NoDetails EXCEPT !.cause = cause])

\* the indexes, in the new document's iteration order, of the operations that
\* carry an operationId the existing document also has
Conflicts(doc, existing) ==
    LET ops == Operations(doc.paths)
    IN  {i \in 1..Len(ops) :
            /\ ops[i].operation.operationId # ""
            /\ findDuplicateOperationId(existing, ops[i].operation.operationId).exists}

mergePaths_ExistingWins(existingPaths, newPaths) == Spread(newPaths, existingPaths)

\* openapi.paths = { ...existingOpenAPI.paths, ...openapi.paths }
mergePaths(existingPaths, newPaths) == Spread(existingPaths, newPaths)

\* a variant of mergeSchemas that keeps the new document's schemas only
mergeSchemas_NewOnly(existingSchemas, newSchemas) == newSchemas

\* openapi.components.schemas = { ...existing.components?.schemas, ...openapi.components.schemas }
mergeSchemas(existingSchemas, newSchemas) == Spread(existingSchemas, newSchemas)

\* the call's effect: the document object afterwards and how the call ended
mergeWithExisting(doc, file) ==
    CASE file.kind = "missing" ->
            [openapi |-> doc, result |-> MergeError("ENOENT")]
      [] file.kind = "invalid" ->
            [openapi |-> doc, result |-> MergeError("YAMLException")]
      [] file.kind = "null" ->
            \* reading .paths of no value is a TypeError, in the scan or in the spread
            [openapi |-> doc, result |-> MergeError("TypeError")]
      [] file.kind = "scalar" ->
            \* a string has no paths and no components: nothing to scan, nothing to add
            [openapi |-> [paths |-> mergePaths(EmptyMap, doc.paths),
                          schemas |-> mergeSchemas(EmptyMap, doc.schemas)],
             result |-> Returned]
      [] file.kind = "doc" ->
            LET ops == Operations(doc.paths)
                conflicts == Conflicts(doc, file.doc)
            IN  IF conflicts # {}
                THEN LET op == ops[Min(conflicts)]
                         duplicate == findDuplicateOperationId(
                                          file.doc, op.operation.operationId)
                     IN  [openapi |-> doc,
                          result |-> Threw("DUPLICATE_OPERATION_ID",
                              [NoDetails EXCEPT
                                  !.operationId = op.operation.operationId,
                                  !.existingPath = duplicate.path,
                                  !.existingMethod = duplicate.method,
                                  !.newPath = op.path,
                                  !.newMethod = op.method])]
                ELSE [openapi |-> [paths |-> mergePaths(file.doc.paths, doc.paths),
                                   schemas |-> mergeSchemas(file.doc.schemas, doc.schemas)],
                      result |-> Returned]

MergeInit ==
    /\ openapi \in NewDocuments
    /\ existingFile \in ExistingFiles
    /\ mergeResult = NotCalled
    /\ CurlIdle

Merge ==
    /\ mergeResult.kind = "none"
    /\ LET out == mergeWithExisting(openapi, existingFile)
       IN  /\ openapi' = out.openapi
           /\ mergeResult' = out.result
    /\ UNCHANGED <<existingFile, curlVars, sanitizeVars, idVars, cliVars>>

MergeNext == Merge

SpecMerge == MergeInit /\ [][MergeNext]_vars

\* the operationIds that operations of a document carry
CarriedIds(doc) ==
    {Operations(doc.paths)[i].operation.operationId : i \in 1..Len(Operations(doc.paths))}
    \ {""}

\* operation at (path, method) of a document has this operationId
HasOperationAt(doc, path, method, operationId) ==
    /\ Has(doc.paths, path)
    /\ Has(Get(doc.paths, path), method)
    /\ Get(Get(doc.paths, path), method).operationId = operationId

\* C1: when an operationId of the new document also occurs in the existing
\* document, mergeWithExisting throws DUPLICATE_OPERATION_ID, its details name
\* the clashing id, a location of it in the existing document and a location of
\* it in the new document, and the new document object is left as it was.
C1_DuplicateRaises ==
    [][(/\ mergeResult.kind = "none"
        /\ existingFile.kind = "doc"
        /\ CarriedIds(openapi) \cap CarriedIds(existingFile.doc) # {})
       => (/\ mergeResult'.kind = "threw"
           /\ mergeResult'.code = "DUPLICATE_OPERATION_ID"
           /\ mergeResult'.details.operationId
                 \in CarriedIds(openapi) \cap CarriedIds(existingFile.doc)
           /\ HasOperationAt(existingFile.doc, mergeResult'.details.existingPath,
                             mergeResult'.details.existingMethod,
                             mergeResult'.details.operationId)
           /\ HasOperationAt(openapi, mergeResult'.details.newPath,
                             mergeResult'.details.newMethod,
                             mergeResult'.details.operationId)
           /\ openapi' = openapi)]_vars

\* a merge ended in a conflict found on a path key other than the new operation's
C1_Witness ==
    /\ mergeResult.kind = "threw"
    /\ mergeResult.code = "DUPLICATE_OPERATION_ID"
    /\ mergeResult.details.existingPath # mergeResult.details.newPath
    /\ existingFile.kind = "doc"

\* C2: when no operationId of the new document occurs in the existing one, the
\* call returns the document whose path keys are the union of both key sets; a
\* key of the new document has the new document's entry as a whole, a key of
\* the existing document alone has the existing entry.
C2_PathsUnion ==
    [][(/\ mergeResult.kind = "none"
        /\ existingFile.kind = "doc"
        /\ CarriedIds(openapi) \cap CarriedIds(existingFile.doc) = {})
       => (/\ mergeResult'.kind = "returned"
           /\ Keys(openapi'.paths) = Keys(existingFile.doc.paths) \cup Keys(openapi.paths)
           /\ \A p \in Keys(openapi.paths) :
                 Get(openapi'.paths, p) = Get(openapi.paths, p)
           /\ \A p \in Keys(existingFile.doc.paths) \ Keys(openapi.paths) :
                 Get(openapi'.paths, p) = Get(existingFile.doc.paths, p))]_vars

\* a merge returned a document in which a path key of both documents holds the
\* new entry, which lacks a method the existing entry had
C2_Witness ==
    /\ mergeResult.kind = "returned"
    /\ existingFile.kind = "doc"
    /\ \E p \in Keys(existingFile.doc.paths) :
          /\ Get(openapi.paths, p) # Get(existingFile.doc.paths, p)
          /\ Keys(Get(existingFile.doc.paths, p)) \ Keys(Get(openapi.paths, p)) # {}
    /\ \E p \in Keys(existingFile.doc.paths) :
          Get(openapi.paths, p) = Get(existingFile.doc.paths, p)

(***************************************************************************)
(* CurlParser.sanitize                                                     *)
(***************************************************************************)
\* /-H\s+'<name>:[^']+'/gi
SingleQuotedHeader(name) ==
    [Flag("-H", TRUE, {Quote1}, FALSE, {Quote1}, {Quote1}, FALSE)
        EXCEPT !.inner = name \o ":"]

\* /-H\s+"<name>:[^"]+"/gi
DoubleQuotedHeader(name) ==
    [Flag("-H", TRUE, {Quote2}, FALSE, {Quote2}, {Quote2}, FALSE)
        EXCEPT !.inner = name \o ":"]

headersToRemove ==
    <<"accept-encoding", "accept-language", "sec-fetch-dest", "sec-fetch-mode",
      "sec-fetch-site", "user-agent", "priority", "referer", "origin", "cookie",
      "connection", "cache-control", "pragma", "accept">>

\* -H\s+'${header}:[^']+'|\s*-H\s+"${header}:[^"]+"
RemovalRx(header) ==
    <<SingleQuotedHeader(header), [DoubleQuotedHeader(header) EXCEPT !.lead = TRUE]>>

\* headersToRemove.forEach: one replace per header, in the list's order
RECURSIVE RemoveHeaders(_, _)
RemoveHeaders(curlCommand, headers) ==
    IF headers = <<>> THEN curlCommand
    ELSE RemoveHeaders(ReplaceAll(curlCommand, 1, RemovalRx(Head(headers)), ""),
                       Tail(headers))

CleanUp(curlCommand) ==
    LET joined == ReplaceAll(curlCommand, 1, <<[kind |-> "continuation"]>>, " ")
        single == ReplaceAll(joined, 1, <<[kind |-> "spaces"]>>, " ")
        spaced == ReplaceAll(single, 1, <<[kind |-> "headerFlag"]>>, " -H ")
    IN  Trim(spaced)

sanitize(curlCommand) ==
    LET noAuth1 == ReplaceAll(curlCommand, 1, <<SingleQuotedHeader("Authorization")>>, "")
        noAuth2 == ReplaceAll(noAuth1, 1, <<DoubleQuotedHeader("Authorization")>>, "")
    IN  CleanUp(RemoveHeaders(noAuth2, headersToRemove))

MaxFragments == 3
MaxPasses == 3

\* pieces of command text: a URL, header flags that sanitize removes and keeps,
\* a line continuation, and the two halves of a header flag split in its name
Fragments ==
    {" 'https://h/x'",
     " -H 'Authorization: t'",
     " -H \"authorization: t\"",
     " -H 'accept: a'",
     " -H 'Accept-Language: en'",
     "  -H \"Cookie: c\"",
     " -H 'X-Id: 1'",
     " \\\n  -H \"X-Id: 2\"",
     " -H 'coo",
     "-H 'Accept: a'",
     "kie: b'",
     "-H"}

RECURSIVE Concat(_)
Concat(pieces) == IF pieces = <<>> THEN "" ELSE Head(pieces) \o Concat(Tail(pieces))

Texts == {"curl" \o Concat(pieces) : pieces \in SeqsUpTo(Fragments, MaxFragments)}

SanitizeInit ==
    /\ passes \in {<<text>> : text \in Texts}
    /\ operationCalls = <<>>
    /\ CliIdle
    /\ command = <<>>
    /\ parsed = ParseThrew
    /\ generated = [options |-> NoOptions, response |-> Null, openapi |-> NoDocumentYet]
    /\ schemaWrites = <<>>
    /\ pc = "idle"
    /\ openapi = NoDocumentYet
    /\ existingFile = [kind |-> "missing", doc |-> NoDocumentYet]
    /\ mergeResult = [kind |-> "none"]

\* curlCommand = CurlParser.sanitize(curlCommand)
Sanitize ==
    /\ passes # <<>>
    /\ Len(passes) <= MaxPasses
    /\ passes' = Append(passes, sanitize(passes[Len(passes)]))
    /\ UNCHANGED <<mergeVars, curlVars, idVars, cliVars>>

SanitizeNext == Sanitize

SpecSanitize == SanitizeInit /\ [][SanitizeNext]_vars

(***************************************************************************)
(* generateOperationId, called on methods and path templates                *)
(***************************************************************************)
MaxSegments == 2
MaxCalls == 2

\* a literal segment, and placeholders whose names are plain or hold "_"
TemplateSegments == {"users", "{id}", "{userId}", "{a}", "{b_c}", "{a_b}", "{c}"}

Templates ==
    {"/" \o Join(segments, "/") :
        segments \in {q \in SeqsUpTo(TemplateSegments, MaxSegments) : q # <<>>}}

OperationIdInit ==
    /\ operationCalls = <<>>
    /\ CliIdle
    /\ passes = <<>>
    /\ command = <<>>
    /\ parsed = ParseThrew
    /\ generated = [options |-> NoOptions, response |-> Null, openapi |-> NoDocumentYet]
    /\ schemaWrites = <<>>
    /\ pc = "idle"
    /\ openapi = NoDocumentYet
    /\ existingFile = [kind |-> "missing", doc |-> NoDocumentYet]
    /\ mergeResult = [kind |-> "none"]

\* this.generateOperationId(curl.method, pathName)
GenerateOperationId ==
    /\ Len(operationCalls) < MaxCalls
    /\ \E method \in {"GET", "POST"}, path \in Templates :
          operationCalls' = Append(operationCalls,
              [method |-> method, path |-> path,
               operationId |-> generateOperationId(method, path)])
    /\ UNCHANGED <<mergeVars, curlVars, sanitizeVars, cliVars>>

OperationIdNext == GenerateOperationId

SpecOperationId == OperationIdInit /\ [][OperationIdNext]_vars

(***************************************************************************)
(* The generate command: runs of its action, one after another, on one     *)
(* file system                                                              *)
(***************************************************************************)
MaxRuns == 3

\* the two versions of the action in CLIService.ts
Variants == {"earlier", "later"}

\* a curl command and the JSON its execution answers
RunInputs ==
    {[command |-> "curl 'https://h/users'",
      response |-> Obj(<<KV("id", Num("1")),
                         KV("owner", Obj(<<KV("name", Str("x"))>>))>>)],
     [command |-> "curl -X POST 'https://h/users' -d 'name=John'",
      response |-> Obj(<<KV("ok", Bool(TRUE))>>)],
     [command |-> "curl 'https://h/posts'",
      response |-> Arr(<<Obj(<<KV("id", Num("1")), KV("title", Null)>>)>>)]}

\* --append, --output-path and --name, each given or not
RunOptions ==
    [append : {"", AppendFile}, outputPath : {"", AppendFile},
     name : {"", "createUser"}]

\* const openAPIOptions = {...}: the later version falls back to --output,
\* whose default is swagger.yaml
openAPIOptions(variant, options) ==
    [urlTemplate |-> "", operationName |-> options.name, summary |-> "",
     tags |-> <<>>,
     outputPath |-> IF variant = "later" /\ options.outputPath = ""
                    THEN DefaultOutput ELSE options.outputPath,
     appendPath |-> options.append]

\* fs.writeFileSync(outputPath, yaml.dump(openapi)): the file then holds the
\* document, which yaml.load gives back on a later read (the documents here
\* hold maps, lists, strings, numbers, booleans and null only)
saveToFile(doc, options, fs) ==
    LET outputPath == IF options.outputPath # "" THEN options.outputPath
                      ELSE IF options.appendPath # "" THEN options.appendPath
                      ELSE "swagger.yaml"
    IN  [fs EXCEPT ![outputPath] = [kind |-> "doc", doc |-> doc]]

\* documents written by earlier runs: one operation, and two operations on two
\* paths
OneOperation ==
    generate(parse("curl 'https://h/tags'"),
             Obj(<<KV("tags", Arr(<<Obj(<<KV("id", Num("1"))>>)>>))>>),
             NoOptions).openapi

TwoOperations ==
    mergeWithExisting(
        generate(parse("curl -X POST 'https://h/posts'"), Obj(<<KV("id", Num("2"))>>),
                 [NoOptions EXCEPT !.operationName = "createUser"]).openapi,
        [kind |-> "doc", doc |-> OneOperation]).openapi

InitialFiles ==
    {NoFile, [kind |-> "scalar", doc |-> NoDocumentYet],
     [kind |-> "doc", doc |-> OneOperation], [kind |-> "doc", doc |-> TwoOperations]}

RunInit ==
    /\ files \in {[f \in FileNames |-> IF f = AppendFile THEN file ELSE NoFile] :
                     file \in InitialFiles}
    /\ run \in {[variant |-> v, before |-> files] @@ NoRun : v \in Variants}
    /\ operationCalls = <<>>
    /\ passes = <<>>
    /\ command = <<>>
    /\ parsed = ParseThrew
    /\ generated = [options |-> NoOptions, response |-> Null, openapi |-> NoDocumentYet]
    /\ schemaWrites = <<>>
    /\ pc = "idle"
    /\ openapi = NoDocumentYet
    /\ existingFile = [kind |-> "missing", doc |-> NoDocumentYet]
    /\ mergeResult = [kind |-> "none"]

\* CurlParser.parse(CurlParser.sanitize(curlCommand)) for each input
Sanitized == [input \in RunInputs |-> parse(sanitize(input.command))]

\* OpenAPIGenerator.generate(parsed, responseData, openAPIOptions) for each
\* input and each choice of the options
GeneratedFrom(curl, response, options) ==
    IF curl.threw THEN NoDocumentYet ELSE generate(curl, response, options).openapi

GeneratedDocuments ==
    [input \in RunInputs, variant \in Variants, options \in RunOptions |->
        GeneratedFrom(Sanitized[input], input.response, openAPIOptions(variant, options))]

\* the run after CurlParser.parse and OpenAPIGenerator.generate: an exception
\* of parse goes to the catch, which exits with 1
Started(curl, input, options) ==
    IF curl.threw
    THEN [run EXCEPT !.n = @ + 1, !.options = options, !.input = input,
                     !.before = files, !.saved = FALSE, !.error = "URIError",
                     !.openapi = NoDocumentYet, !.pc = "done", !.exit = 1]
    ELSE [run EXCEPT !.n = @ + 1, !.options = options, !.input = input,
                     !.before = files, !.saved = FALSE, !.error = "",
                     !.openapi = GeneratedDocuments[input, run.variant, options],
                     !.pc = "generated", !.exit = -1]

\* a new process: sanitize, parse, generate
GenerateStep ==
    /\ run.pc \in {"idle", "done"}
    /\ run.n < MaxRuns
    /\ \E input \in RunInputs, options \in RunOptions :
          run' = Started(Sanitized[input], input, options)
    /\ UNCHANGED <<files, mergeVars, curlVars, sanitizeVars, idVars>>

\* a variant of Merged that swallows the exception and goes on to the save
Merged_GoesOn(out) ==
    IF out.result.kind = "threw"
    THEN [run EXCEPT !.pc = "merged", !.error = out.result.code]
    ELSE [run EXCEPT !.pc = "merged", !.openapi = out.openapi]

\* the run after mergeWithExisting: a SwagglerException ends the process with
\* exit code 1
Merged(out) ==
    IF out.result.kind = "threw"
    THEN [run EXCEPT !.pc = "done", !.exit = 1, !.error = out.result.code]
    ELSE [run EXCEPT !.pc = "merged", !.openapi = out.openapi]

\* if (options.append) openapi = OpenAPIGenerator.mergeWithExisting(...)
MergeStep ==
    /\ run.pc = "generated"
    /\ run.options.append # ""
    /\ run' = Merged(mergeWithExisting(run.openapi, files[run.options.append]))
    /\ UNCHANGED <<files, mergeVars, curlVars, sanitizeVars, idVars>>

\* OpenAPIGenerator.saveToFile(openapi, openAPIOptions), and the process ends
SaveStep ==
    /\ run.pc = (IF run.options.append = "" THEN "generated" ELSE "merged")
    /\ files' = saveToFile(run.openapi, openAPIOptions(run.variant, run.options), files)
    /\ run' = [run EXCEPT !.pc = "done", !.exit = 0, !.saved = TRUE]
    /\ UNCHANGED <<mergeVars, curlVars, sanitizeVars, idVars>>

RunNext == GenerateStep \/ MergeStep \/ SaveStep

SpecRun == RunInit /\ [][RunNext]_vars

(***************************************************************************)
(* Claims about parse and generate                                         *)
(***************************************************************************)
Generated == pc = "generated"

ParsedOk == pc \in {"parsed", "generated"} /\ ~parsed.threw

\* the arguments of the command whose flag is in F, in order
ArgsOf(F) ==
    LET RECURSIVE pick(_)
        pick(args) == IF args = <<>> THEN <<>>
                      ELSE (IF Head(args).flag \in F THEN <<Head(args)>> ELSE <<>>)
                           \o pick(Tail(args))
    IN  pick(command)

HasFlag(F) == \E i \in 1..Len(command) : command[i].flag \in F

\* the operation of the generated document
TheOperation == Operations(generated.openapi.paths)[1].operation

Prefix == capitalizeFirstLetter(TheOperation.operationId)

Schemas == generated.openapi.schemas

\* C3: within one generate call no schema name is assigned two different
\* schemas: any two assignments to one name, in the registry or in
\* components.schemas, assign the same schema.
C3_NoNameAssignedTwoSchemas ==
    \A i \in 1..Len(schemaWrites) : \A j \in 1..Len(schemaWrites) :
        schemaWrites[i].name = schemaWrites[j].name
            => schemaWrites[i].schema = schemaWrites[j].schema

\* data that is absent or empty: no value, "", {} or []
EmptyData(data) ==
    \/ data.t = "undefined"
    \/ data.t = "str" /\ data.s = ""
    \/ data.t = "obj" /\ data.o = EmptyMap
    \/ data.t = "arr" /\ data.a = <<>>

\* C4: components.schemas of generate's output has the key <Prefix>Response,
\* and has the key <Prefix>Request exactly when the parsed data is non-empty
\* (and then, and only then, the operation has a requestBody).
C4_RequestIffData ==
    Generated =>
        /\ Has(Schemas, Prefix \o "Response")
        /\ Has(Schemas, Prefix \o "Request") <=> ~EmptyData(parsed.data)
        /\ TheOperation.requestBody.present <=> ~EmptyData(parsed.data)

\* the path a URL was typed with: what follows the origin, up to the query
TypedPath(url) ==
    LET hostAt == IndexOf(url, "://", 1) + 3
        pathAt == StopAt(url, hostAt, {"/", "?"})
    IN  SubSeq(url, pathAt, StopAt(url, pathAt, {"?"}) - 1)

\* the non-empty pieces of a path between its slashes
Segments(path) ==
    LET RECURSIVE keep(_)
        keep(parts) == IF parts = <<>> THEN <<>>
                       ELSE (IF Head(parts) = "" THEN <<>> ELSE <<Head(parts)>>)
                            \o keep(Tail(parts))
    IN  keep(Split(path, "/"))

\* C5: for curl -X <VERB> '<origin><path>' ... with urlTemplate and
\* operationName unset, the generated document's single path key is <path> and
\* its operationId is the lower-cased verb, an underscore, and the path
\* segments joined by underscores (post_users for POST .../users).
C5_PathAndOperationId ==
    (/\ Generated
     /\ generated.options = NoOptions
     /\ Len(command) >= 2
     /\ command[1].flag = "-X"
     /\ command[2].flag = "" /\ command[2].quote = Quote1)
    => /\ Keys(generated.openapi.paths) = {TypedPath(command[2].value)}
       /\ TheOperation.operationId =
             ToLowerCase(command[1].value) \o "_"
             \o Join(Segments(TypedPath(command[2].value)), "_")

JsonHeader == Arg("-H", Quote1, "Content-Type: application/json")

\* C6: with -H 'Content-Type: application/json' and a single-quoted -d body
\* that is a JSON object, the document has a <Prefix>Request schema of type
\* object with one property per top-level key of the body, typed by the
\* value-to-type mapping.
C6_RequestSchemaFromJsonBody ==
    (/\ Generated
     /\ \E i \in 1..Len(command) : command[i] = JsonHeader
     /\ Len(ArgsOf(BodyFlags)) = 1
     /\ ArgsOf(BodyFlags)[1].flag = "-d"
     /\ ArgsOf(BodyFlags)[1].quote = Quote1
     /\ JsonParse(ArgsOf(BodyFlags)[1].value).ok
     /\ JsonParse(ArgsOf(BodyFlags)[1].value).val.t = "obj")
    => LET body == JsonParse(ArgsOf(BodyFlags)[1].value).val.o
           name == Prefix \o "Request"
       IN  /\ Has(Schemas, name)
           /\ Get(Schemas, name).type = "object"
           /\ Keys(Get(Schemas, name).properties) = Keys(body)
           /\ \A key \in Keys(body) :
                 LET property == Get(Get(Schemas, name).properties, key)
                 IN  /\ "type" \in DOMAIN property
                     /\ property.type = getOpenAPIType(Get(body, key))

\* C7: a command without -X returns method POST when it has a -d, --data, -F
\* or --data-raw flag, whether its value is quoted or not, and GET when it has
\* no body flag.
C7_DefaultMethod ==
    (ParsedOk /\ ~HasFlag({"-X"}))
    => /\ HasFlag({"-d", "--data", "-F", "--data-raw"}) => parsed.method = "POST"
       /\ ~HasFlag(BodyFlags) => parsed.method = "GET"

\* the key=value pieces of the arguments whose flag is in F
FieldsOf(F) ==
    LET args == ArgsOf(F)
    IN  UNION {{Split(piece, "=") : piece \in
                   {Split(args[i].value, "&")[j] : j \in 1..Len(Split(args[i].value, "&"))}}
               : i \in 1..Len(args)}

KeysOf(F) == {f[1] : f \in FieldsOf(F)}

ValuesOf(F) == {f[2] : f \in {g \in FieldsOf(F) : Len(g) >= 2}}

\* the category of body flag that takes precedence in the command
TopCategory ==
    IF HasFlag(FormFlags) THEN FormFlags
    ELSE IF HasFlag(UrlEncodedFlags) THEN UrlEncodedFlags
    ELSE RawFlags

CategoriesPresent ==
    Cardinality({F \in {FormFlags, UrlEncodedFlags, RawFlags} : HasFlag(F)})

\* C8: with body flags of more than one category, data is a mapping taken
\* from the flags of the highest-precedence category only (form over
\* url-encoded over raw): every key of data is a key of such a flag, no value
\* of a lower-precedence flag appears, and with a form flag present the
\* content type is multipart/form-data.
C8_HighestCategoryOnly ==
    (ParsedOk /\ CategoriesPresent >= 2)
    => /\ parsed.data.t = "obj"
       /\ Keys(parsed.data.o) \subseteq KeysOf(TopCategory)
       /\ \A i \in 1..Len(parsed.data.o) :
             parsed.data.o[i].v.s \in ValuesOf(BodyFlags \ TopCategory)
                 => parsed.data.o[i].v.s \in ValuesOf(TopCategory)
       /\ HasFlag(FormFlags) => parsed.contentType = "multipart/form-data"

\* C9: when --data-raw is the only body flag and no header declares
\* application/x-www-form-urlencoded, data is the parsed JSON value of the whole
\* payload with content type application/json if the payload is valid JSON,
\* and otherwise the whole payload as a string with content type text/plain.
C9_RawBody ==
    (/\ ParsedOk
     /\ Len(ArgsOf(BodyFlags)) = 1
     /\ ArgsOf(BodyFlags)[1].flag = "--data-raw"
     /\ parsed.contentType # FormUrlEncoded
     /\ \A i \in 1..Len(command) :
           command[i].flag = "-H" => command[i].value # "Content-Type: " \o FormUrlEncoded)
    => LET payload == ArgsOf(BodyFlags)[1].value
       IN  IF JsonParse(payload).ok
           THEN /\ parsed.data = JsonParse(payload).val
                /\ parsed.contentType = "application/json"
           ELSE /\ parsed.data = Str(payload)
                /\ parsed.contentType = "text/plain"

\* C10: sanitize is idempotent: sanitizing a sanitized command returns it
\* unchanged, also when removing one header flag left text that forms another
\* removable header flag.
C10_SanitizeIdempotent ==
    \A k \in 3..Len(passes) : passes[k] = passes[2]

\* the header names sanitize is to remove, in lower case
DeniedNames ==
    {"authorization"} \cup {headersToRemove[i] : i \in 1..Len(headersToRemove)}

\* the text has a -H flag, in either quote style, with the header name
HasHeaderFlag(text, name) ==
    \/ Hits(text, 1, <<SingleQuotedHeader(name)>>) # {}
    \/ Hits(text, 1, <<DoubleQuotedHeader(name)>>) # {}

HeaderNames(headers) == {ToLowerCase(headers[i].k) : i \in 1..Len(headers)}

\* C11: the output of sanitize holds no -H flag, single- or double-quoted,
\* whose header name is Authorization or a denylisted name in any letter
\* case, and parse of the sanitized text returns no such header.
C11_NoDeniedHeaderLeft ==
    Len(passes) >= 2 =>
        /\ \A name \in DeniedNames : ~HasHeaderFlag(passes[2], name)
        /\ HeaderNames(parse(passes[2]).headers) \cap DeniedNames = {}

\* the parameters of the generated operation that are in the given place
ParametersIn(place) ==
    LET all == TheOperation.parameters
    IN  {all[i] : i \in {j \in 1..Len(all) : all[j]["in"] = place}}

\* the schema type and the example the claim gives a query value
ExpectedType(value) ==
    IF JsonParse(value).ok /\ JsonParse(value).val.t = "arr" THEN "array"
    ELSE IF JsonParse(value).ok /\ JsonParse(value).val.t = "obj" THEN "object"
    ELSE "string"

ExpectedExample(value) ==
    IF JsonParse(value).ok THEN JsonParse(value).val ELSE Str(value)

\* C12: every query parameter that is not a path parameter becomes one query
\* parameter whose schema type is array for a JSON array, object for a JSON
\* object and string otherwise (JSON numbers, booleans and null included),
\* with the parsed value as example, or the string when it does not parse.
C12_QueryParameterTypes ==
    Generated =>
        \A i \in 1..Len(parsed.queryParams) :
            LET key == parsed.queryParams[i].k
                value == parsed.queryParams[i].v
                emitted == {p \in ParametersIn("query") : p.name = key}
            IN  key \notin {p.name : p \in ParametersIn("path")} =>
                    /\ Cardinality(emitted) = 1
                    /\ \A p \in emitted :
                          /\ p.schema.type = ExpectedType(value)
                          /\ p.example = ExpectedExample(value)

IsPlaceholder(segment) ==
    Len(segment) >= 3 /\ Head(segment) = "{" /\ CharAt(segment, Len(segment)) = "}"

\* two templates with the same literal segments and placeholders in the same
\* places
SameLiterals(path1, path2) ==
    LET s1 == Split(path1, "/")
        s2 == Split(path2, "/")
    IN  /\ Len(s1) = Len(s2)
        /\ \A i \in 1..Len(s1) :
              IF IsPlaceholder(s1[i]) THEN IsPlaceholder(s2[i]) ELSE s1[i] = s2[i]

\* C13: two templates with the same method and the same literal segments but
\* different {param} names never yield the same operation id.
C13_OperationIdInjective ==
    \A i \in 1..Len(operationCalls) : \A j \in 1..Len(operationCalls) :
        (/\ operationCalls[i].method = operationCalls[j].method
         /\ SameLiterals(operationCalls[i].path, operationCalls[j].path)
         /\ operationCalls[i].path # operationCalls[j].path)
        => operationCalls[i].operationId # operationCalls[j].operationId

\* the names of the placeholders of a template, {param} or :param, in order
Placeholders(template) ==
    LET segments == Split(template, "/")
        RECURSIVE names(_)
        names(i) ==
            IF i > Len(segments) THEN <<>>
            ELSE (IF IsPlaceholder(segments[i])
                  THEN <<SubSeq(segments[i], 2, Len(segments[i]) - 1)>>
                  ELSE IF Len(segments[i]) >= 2 /\ Head(segments[i]) = ":"
                  THEN <<Tail(segments[i])>>
                  ELSE <<>>) \o names(i + 1)
    IN  names(1)

\* the parameters of the operation that are in the path, in order
PathParameters ==
    LET all == TheOperation.parameters
        RECURSIVE keep(_)
        keep(i) == IF i > Len(all) THEN <<>>
                   ELSE (IF all[i]["in"] = "path" THEN <<all[i]>> ELSE <<>>) \o keep(i + 1)
    IN  keep(1)

\* C15: for every placeholder of the url template, written {param} or :param,
\* exactly one parameter with that name is emitted, in: path, required and of
\* schema type string, and the path parameters are in the order of the
\* placeholders.
C15_PathParametersOfTemplate ==
    (Generated /\ generated.options.urlTemplate # "") =>
        PathParameters =
            [i \in 1..Len(Placeholders(generated.options.urlTemplate)) |->
                [name |-> Placeholders(generated.options.urlTemplate)[i],
                 in |-> "path", required |-> TRUE, schema |-> [type |-> "string"]]]

\* the schema the specification gives a null value
NullSchema == [type |-> "string", nullable |-> TRUE]

\* every null property of the object is given NullSchema in the schema
\* registered under the name
NullProperties(object, name) ==
    \A i \in 1..Len(object.o) :
        object.o[i].v.t = "null" =>
            Get(Get(Schemas, name).properties, object.o[i].k) = NullSchema

\* C16: schema inference maps null to {type: "string", nullable: true} wherever
\* it occurs: as the top-level value, as the value of an object property, and
\* as the first element of an array.
C16_NullIsNullableString ==
    Generated =>
        LET response == generated.response
        IN  /\ response.t = "null" => Get(Schemas, Prefix \o "Response") = NullSchema
            /\ response.t = "obj" => NullProperties(response, Prefix \o "Response")
            /\ (response.t = "arr" /\ response.a # <<>>) =>
                  /\ response.a[1].t = "null" =>
                        Get(Schemas, Prefix \o "Item") = NullSchema
                  /\ response.a[1].t = "obj" =>
                        NullProperties(response.a[1], Prefix \o "Item")

\* C17: whenever reading or parsing the existing file fails for a reason other
\* than an operation-id conflict (missing file, invalid YAML, a parsed value
\* that is not a document object), mergeWithExisting raises MERGE_ERROR with
\* the underlying cause and returns no document.
C17_FailuresRaiseMergeError ==
    (mergeResult.kind # "none" /\ existingFile.kind # "doc") =>
        /\ mergeResult.kind = "threw"
        /\ mergeResult.code = "MERGE_ERROR"
        /\ mergeResult.details.cause # ""

\* a run that ended with exit code 0
Succeeded == run.pc = "done" /\ run.exit = 0

\* the document has every operation of the list
HoldsOperations(doc, ops) ==
    \A i \in 1..Len(ops) :
        HasOperationAt(doc, ops[i].path, ops[i].method, ops[i].operation.operationId)

\* C14: when --append F is given and no explicit output path, a successful run
\* writes the merged document to F itself, so that F then holds the operation
\* of the run.
C14_AppendWritesAppendFile ==
    (Succeeded /\ run.options.append # "" /\ run.options.outputPath = "") =>
        /\ files[run.options.append] = [kind |-> "doc", doc |-> run.openapi]
        /\ HoldsOperations(files[run.options.append].doc,
                           Operations(GeneratedDocuments[run.input, run.variant,
                                                         run.options].paths))

\* the run's mergeWithExisting threw
MergeFailed == run.error \in {"DUPLICATE_OPERATION_ID", "MERGE_ERROR"}

\* C18: the file write happens only after generate and, with --append, after a
\* successful merge: in a run whose mergeWithExisting fails saveToFile is never
\* called, the run ends with a non-zero exit code and no file is changed.
C18_NoWriteOnMergeFailure ==
    /\ MergeFailed =>
          /\ run.pc = "done"
          /\ run.exit # 0 /\ run.exit # -1
          /\ ~run.saved
          /\ files = run.before
    /\ run.saved =>
          /\ ~MergeFailed
          /\ run.openapi # NoDocumentYet
          /\ run.options.append # "" =>
                run.openapi = mergeWithExisting(
                    GeneratedDocuments[run.input, run.variant, run.options],
                    run.before[run.options.append]).openapi
    /\ files # run.before => run.saved

\* a second run fails on a duplicate of the operation the first run wrote to
\* the append file
C18_Witness ==
    /\ run.error = "DUPLICATE_OPERATION_ID"
    /\ run.n = 2
    /\ run.before[AppendFile].kind = "doc"
    /\ files = run.before
    /\ run.pc = "done"

\* no two operations of the document have the same operationId
DistinctOperationIds(doc) ==
    LET ops == Operations(doc.paths)
    IN  \A i \in 1..Len(ops) : \A j \in 1..Len(ops) :
            i # j => ops[i].operation.operationId # ops[j].operation.operationId

\* C19: starting from a document whose operationIds are pairwise distinct,
\* after any sequence of successful mergeWithExisting calls, each merging a
\* freshly generated one-operation document into the result of the call
\* before, the operationIds of the resulting document are pairwise distinct.
C19_OperationIdsStayDistinct ==
    /\ run.pc = "merged" => DistinctOperationIds(run.openapi)
    /\ \A f \in FileNames : files[f].kind = "doc" => DistinctOperationIds(files[f].doc)

\* the third run's merge returned a document of three operations, one of them
\* named by --name
C19_Witness ==
    /\ run.pc = "merged"
    /\ run.n = 3
    /\ Len(Operations(run.openapi.paths)) = 3
    /\ run.options.name = "createUser"
    /\ run.before[AppendFile].kind = "doc"
    /\ Len(Operations(run.before[AppendFile].doc.paths)) = 2

\* the $ref values in a schema, at any depth
RECURSIVE SchemaRefs(_)
SchemaRefs(schema) ==
    (IF "ref" \in DOMAIN schema THEN {schema.ref} ELSE {})
    \cup (IF "items" \in DOMAIN schema THEN SchemaRefs(schema.items) ELSE {})
    \cup (IF "properties" \in DOMAIN schema
          THEN UNION {SchemaRefs(schema.properties[i].v) :
                         i \in 1..Len(schema.properties)}
          ELSE {})

\* the $ref values of the media types of a content map
ContentRefs(content) == UNION {SchemaRefs(content[i].v.schema) : i \in 1..Len(content)}

\* the $ref values of an operation: parameters, requestBody, responses
OperationRefs(operation) ==
    UNION {SchemaRefs(operation.parameters[i].schema) :
              i \in 1..Len(operation.parameters)}
    \cup (IF operation.requestBody.present
          THEN ContentRefs(operation.requestBody.content) ELSE {})
    \cup UNION {ContentRefs(operation.responses[i].v.content) :
                   i \in 1..Len(operation.responses)}

\* the $ref values of a document, in its operations and in its schemas
DocumentRefs(doc) ==
    UNION {OperationRefs(Operations(doc.paths)[i].operation) :
              i \in 1..Len(Operations(doc.paths))}
    \cup UNION {SchemaRefs(doc.schemas[i].v) : i \in 1..Len(doc.schemas)}

\* every $ref of the document names a key of components.schemas
RefsResolve(doc) ==
    DocumentRefs(doc) \subseteq {RefTo(N).ref : N \in Keys(doc.schemas)}

\* C20: in every document generate returns, every $ref #/components/schemas/N
\* (in requestBody, in responses and inside the schemas) names a key N of
\* components.schemas; and a successful mergeWithExisting of such a document
\* into an existing document with the same property returns a document with
\* the property.
C20_RefsResolve ==
    /\ run.pc \in {"generated", "merged"} => RefsResolve(run.openapi)
    /\ \A f \in FileNames : files[f].kind = "doc" => RefsResolve(files[f].doc)

\* a merge returned a document that holds existing operations and a new one,
\* with references to nested schemas of both
C20_Witness ==
    /\ run.pc = "merged"
    /\ run.before[AppendFile].kind = "doc"
    /\ Len(Operations(run.openapi.paths)) = 3
    /\ Cardinality(DocumentRefs(run.openapi)) > Len(Operations(run.openapi.paths)) + 1
    /\ DocumentRefs(run.before[AppendFile].doc) # {}
    /\ ~(DocumentRefs(run.openapi) \subseteq DocumentRefs(run.before[AppendFile].doc))

\* C21: CurlParser.parse is total: for every command it returns a request
\* descriptor and never throws; a body that is not valid JSON and a body value
\* with a malformed percent-escape each yield a result.
C21_ParseIsTotal ==
    pc \in {"parsed", "generated"} => ~parsed.threw

====
